---- MODULE Spec2Model ----
(***************************************************************************)
(* file-batch-processor. The batch executor: one executor object           *)
(* (IndividualBatchProcessor or AdjointBatchProcessor), its observers, a   *)
(* call of process_files by the caller thread, the background coordinating *)
(* thread (_process_files_thread) and the tasks of its ThreadPoolExecutor, *)
(* run after run on one processor instance. Beside it the factory          *)
(* (BatchProcessorFactory), the plugin manager (PluginManager) and         *)
(* IProcessor.check_dependencies.                                          *)
(***************************************************************************)
EXTENDS Naturals, Integers, Sequences, FiniteSets, TLC

\* ---------------------------------------------------------------- bounds
MaxFiles == 3
MaxWorkers == 2
MaxCreated == 3
MaxInstantiations == 2
MaxDeps == 3
MaxRuns == 2
OverlapBatch == 3

\* ThreadPoolExecutor's default pool size, min(32, os.cpu_count() + 4): at
\* least 5 on every host.
HostWorkers == 5

\* ------------------------------------------------------------ input sets
ObserverIds == {"o1", "o2"}
FileNames == {"f1", "f2"}
\* A third input path: a file of another directory with the base name of f1.
SameBaseName == "f3"
\* The values of save_format a caller may pass: the format TextAnalyzer and
\* SampleProcessor declare, another one, and the empty string the main window
\* passes when it cannot parse the selected format.
DeclaredFormats == {"txt"}
SaveFormats == {"txt", "csv", ""}
ExcTexts == {"", "boom"}
Strategies == {"Individual", "Adjoint"}
\* What the filesystem holds at the output path: nothing (the parent directory
\* being there), a regular file, a directory, nothing with the parent
\* directory missing too ("orphan"), nothing with a regular file where the
\* parent directory should be ("blocked").
Shapes == {"absent", "file", "dir", "orphan", "blocked"}
\* Optional[int]: <<>> is None, <<n>> is the integer n.
NoWorkers == <<>>
WorkerChoices == {NoWorkers} \cup {<<n>> : n \in 1..MaxWorkers}
Other(name) == IF name = "f1" THEN "f2" ELSE "f1"
\* The batches: every length up to MaxFiles, the two names alternating, so a
\* batch holds distinct files and, from three files on, a repeated one.
Alternating(first, n) == [k \in 1..n |-> IF k % 2 = 1 THEN first ELSE Other(first)]
FileLists == {Alternating(first, n) : first \in FileNames, n \in 0..MaxFiles}
\* The batches of distinct input paths, two of the paths sharing a base name.
InputPaths == FileNames \cup {SameBaseName}
DistinctLists ==
    {fs \in UNION {[1..n -> InputPaths] : n \in 0..MaxFiles} :
        \A i, j \in 1..Len(fs) : fs[i] = fs[j] => i = j}

VARIABLES
    strategy,        \* class of the executor object
    outShape,        \* what the filesystem holds at self.output_path
    observers,       \* self.observers
    callerPc,        \* position of the caller inside process_files
    files,           \* argument files of the call
    max_workers,     \* argument max_workers of the call
    save_format,     \* argument save_format of the call
    bgPc,            \* position of the background thread
    submitted,       \* len(futures) in the submit loop
    collected,       \* futures already consumed by the result loop
    task,            \* per position: state of the future / of its process call
    excText,         \* per position: str(e) of the exception process raised
    results,         \* local list results of the Adjoint thread
    procOutputPath,  \* processor.output_path (AdjointProcessor field)
    gatherCalls,     \* arguments of each gather_results invocation, in order
    gatherOutcome,   \* how the gather_results invocation ended
    log,             \* per observer: the events it received, in order
    pendingDone,     \* completed positions not yet reported, oldest completion first
    processor_map,   \* BatchProcessorFactory._processor_map
    facPc,           \* how the last create_batch_processor call ended
    facProcessor,    \* argument processor of that call
    facPath,         \* argument output_path of that call
    facResult,       \* the executor it returned, or NoExecutor
    created,         \* every executor constructed so far, oldest first
    pluginDir,       \* the files present in PluginManager.plugin_dir
    processor_classes, \* PluginManager.processor_classes, in insertion order
    processors,      \* PluginManager.processors, in insertion order
    instantiations,  \* how often the processors were instantiated so far
    pmCall,          \* the last PluginManager call: operation, argument, outcome
    written,         \* the artifacts the run has written in its output location
    runNo,           \* which run on the same processor instance this one is
    shapeBefore,     \* what the filesystem held at the output path before the call
    depCall,         \* the last check_dependencies call: inputs and outcome
    runPc,           \* overlapping runs: where the background thread of each run is
    runCollected,    \* overlapping runs: how many results each run's loop has taken
    gatherSawPath    \* overlapping runs: processor.output_path as each gather_results read it

vars == <<strategy, outShape, observers, callerPc, files, max_workers, bgPc,
          submitted, collected, task, excText, results, procOutputPath,
          gatherCalls, gatherOutcome, log, pendingDone,
          processor_map, facPc, facProcessor, facPath, facResult, created,
          pluginDir, processor_classes, processors, instantiations, pmCall,
          save_format, written, runNo, shapeBefore, depCall,
          runPc, runCollected, gatherSawPath>>

callVars == <<files, max_workers, save_format>>
poolVars == <<submitted, collected, task, excText, pendingDone>>
gatherVars == <<results, procOutputPath, gatherCalls, gatherOutcome>>
overlapVars == <<runPc, runCollected, gatherSawPath>>
execVars == <<strategy, outShape, observers, callerPc, callVars, bgPc,
              poolVars, gatherVars, log, written, runNo, shapeBefore, overlapVars>>
facVars == <<processor_map, facPc, facProcessor, facPath, facResult, created>>
pmVars == <<pluginDir, processor_classes, processors, instantiations, pmCall>>
depVars == <<depCall>>
otherVars == <<facVars, pmVars, depVars, runNo, shapeBefore, overlapVars>>

\* --------------------------------------------------------------- helpers
N == Len(files)
Positions == 1..N

SeqToSet(s) == {s[k] : k \in 1..Len(s)}

\* ProcessingObserver callbacks, as the event the observer receives.
StartEvent(total) ==
    [kind |-> "start", total |-> total, file |-> "", result |-> "",
     success |-> TRUE, message |-> ""]

FileCompleteEvent(file, result, success, message) ==
    [kind |-> "file_complete", total |-> 0, file |-> file, result |-> result,
     success |-> success, message |-> message]

CompleteEvent ==
    [kind |-> "complete", total |-> 0, file |-> "", result |-> "",
     success |-> TRUE, message |-> ""]

\* _notify_*: for observer in self.observers: observer.on_xxx(...)
Notify(event) ==
    [o \in ObserverIds |->
        IF o \in SeqToSet(observers) THEN Append(log[o], event) ELSE log[o]]

\* What processor.process returns for a file.
\* SampleProcessor: os.path.join(output_dir, f"sample_{os.path.basename(file)}").
ArtifactOf(file) == IF file \in {"f1", SameBaseName} THEN "out/f1" ELSE "out/f2"
IntermediateOf(file) ==
    CASE file = "f1" -> "r1" [] file = "f2" -> "r2" [] OTHER -> "r3"
\* str(self.output_path) of the executor of this run.
OutputPathStr ==
    CASE runNo = 1 -> "output_path"
      [] runNo = 2 -> "output_path_2"
      [] OTHER -> "output_path_3"
\* TextAnalyzer.gather_results: if save_format == "txt": open(self.output_path, "w")
GatherWrites(fmt) == fmt = "txt"

\* Variant: the pool is built without the max_workers argument.
PoolSize_ArgumentDropped(mw) == HostWorkers

\* ThreadPoolExecutor(max_workers=...): None means the host default.
PoolSize(mw) == IF mw = NoWorkers THEN HostWorkers ELSE mw[1]

Running == {i \in Positions : task[i] = "running"}
Finished(i) == task[i] \in {"returned", "raised"}

\* ------------------------------------------------------------------ Init
ExecInit ==
    /\ strategy \in Strategies
    /\ outShape \in Shapes
    /\ observers = <<>>
    /\ callerPc = "idle"
    /\ files = <<>>
    /\ max_workers = NoWorkers
    /\ save_format = "txt"
    /\ written = {}
    /\ runNo = 1
    /\ shapeBefore = outShape
    /\ bgPc = "unstarted"
    /\ submitted = 0
    /\ collected = 0
    /\ task = [i \in 1..MaxFiles |-> "none"]
    /\ excText = [i \in 1..MaxFiles |-> ""]
    /\ results = <<>>
    /\ procOutputPath = "None"
    /\ gatherCalls = <<>>
    /\ gatherOutcome = "none"
    /\ log = [o \in ObserverIds |-> <<>>]
    /\ pendingDone = <<>>

\* ------------------------------------------------------------- observers
\* Variant: the observer is appended without the membership test.
add_observer_Unchecked(o) ==
    /\ observers' = Append(observers, o)
    /\ UNCHANGED <<otherVars, written, strategy, outShape, callerPc, callVars, bgPc, poolVars,
                   gatherVars, log>>

\* if observer not in self.observers: self.observers.append(observer)
add_observer(o) ==
    /\ observers' = IF o \in SeqToSet(observers) THEN observers ELSE Append(observers, o)
    /\ UNCHANGED <<otherVars, written, strategy, outShape, callerPc, callVars, bgPc, poolVars,
                   gatherVars, log>>

\* if observer in self.observers: self.observers.remove(observer)
remove_observer(o) ==
    /\ observers' = SelectSeq(observers, LAMBDA x : x # o)
    /\ UNCHANGED <<otherVars, written, strategy, outShape, callerPc, callVars, bgPc, poolVars,
                   gatherVars, log>>

\* The caller registers and unregisters observers before it starts the run ...
AddObserver(o) == callerPc = "idle" /\ add_observer(o)
RemoveObserver(o) == callerPc = "idle" /\ remove_observer(o)

\* ... or after process_files has returned, while the background thread runs.
AddObserverLate(o) == callerPc = "returned" /\ add_observer(o)
RemoveObserverLate(o) == callerPc = "returned" /\ remove_observer(o)

\* ------------------------------------------- process_files (caller thread)
\* Variant: the Adjoint strategy does not look at the target's shape.
ValidationRaises_AdjointUnchecked == strategy = "Individual" /\ outShape = "file"

\* Individual: os.makedirs(self.output_path, exist_ok=True) raises
\* FileExistsError when the path is an existing regular file.
\* Adjoint: raise ValueError when the path exists and is a directory.
\* Both: creating the directories raises when a regular file stands where
\* the parent directory should be.
ValidationRaises ==
    \/ strategy = "Individual" /\ outShape = "file"
    \/ strategy = "Adjoint" /\ outShape = "dir"
    \/ outShape = "blocked"

\* Variant: the directories are not created.
AfterMakeDirs_Skipped(shape) == shape

\* os.makedirs(self.output_path, exist_ok=True) makes the output directory
\* and its parents; self.output_path.parent.mkdir(parents=True, exist_ok=True)
\* makes the parent directory of the output file.
AfterMakeDirs(shape) ==
    IF strategy = "Individual" THEN "dir"
    ELSE IF shape = "orphan" THEN "absent" ELSE shape

\* The call is entered with its arguments; the first statements validate the
\* output target and create the output location.
ProcessFiles(fs, mw, fmt) ==
    /\ callerPc = "idle"
    /\ files' = fs
    /\ max_workers' = mw
    /\ save_format' = fmt
    /\ IF ValidationRaises
          THEN /\ callerPc' = "raised"
               /\ UNCHANGED outShape
          ELSE /\ callerPc' = "notify"
               /\ outShape' = AfterMakeDirs(outShape)
    /\ UNCHANGED <<otherVars, written, strategy, observers, bgPc, poolVars, gatherVars, log>>

\* Variant: the start notification is left out.
NotifyStart_Omitted ==
    /\ callerPc = "notify"
    /\ callerPc' = "launch"
    /\ UNCHANGED <<otherVars, written, strategy, outShape, observers, callVars, bgPc, poolVars,
                   gatherVars, log>>

\* self._notify_start(len(files))
NotifyStart ==
    /\ callerPc = "notify"
    /\ log' = Notify(StartEvent(N))
    /\ callerPc' = "launch"
    /\ UNCHANGED <<otherVars, written, strategy, outShape, observers, callVars, bgPc, poolVars,
                   gatherVars>>

\* thread = threading.Thread(target=self._process_files_thread, ...); thread.start()
ThreadStart ==
    /\ callerPc = "launch"
    /\ callerPc' = "launched"
    /\ bgPc' = "pool"
    /\ UNCHANGED <<otherVars, written, strategy, outShape, observers, callVars, poolVars,
                   gatherVars, log>>

\* Variant: the caller joins the thread before returning.
Return_AfterJoin ==
    /\ callerPc = "launched"
    /\ bgPc \in {"done", "dead"}
    /\ callerPc' = "returned"
    /\ UNCHANGED <<otherVars, written, strategy, outShape, observers, callVars, bgPc, poolVars,
                   gatherVars, log>>

\* process_files returns None to the caller.
Return ==
    /\ callerPc = "launched"
    /\ callerPc' = "returned"
    /\ UNCHANGED <<otherVars, written, strategy, outShape, observers, callVars, bgPc, poolVars,
                   gatherVars, log>>

\* --------------------------------- _process_files_thread (background thread)
\* ThreadPoolExecutor.__init__: if max_workers <= 0: raise ValueError(...)
PoolRejects(mw) == mw # NoWorkers /\ mw[1] <= 0

\* with ThreadPoolExecutor(max_workers=max_workers) as executor:
\* the constructor runs in the background thread; nothing catches what it raises.
CreatePool ==
    /\ bgPc = "pool"
    /\ bgPc' = IF PoolRejects(max_workers) THEN "dead" ELSE "submit"
    /\ UNCHANGED <<otherVars, written, strategy, outShape, observers, callerPc, callVars,
                   poolVars, gatherVars, log>>

\* for file in files: future = executor.submit(...); futures.append((future, file))
Submit ==
    /\ bgPc = "submit"
    /\ IF submitted < N
          THEN /\ submitted' = submitted + 1
               /\ task' = [task EXCEPT ![submitted + 1] = "queued"]
               /\ UNCHANGED bgPc
          ELSE /\ bgPc' = "collect"
               /\ UNCHANGED <<submitted, task>>
    /\ UNCHANGED <<otherVars, written, strategy, outShape, observers, callerPc, callVars,
                   collected, excText, pendingDone, gatherVars, log>>

\* ------------------------------------------------------ pool worker threads
\* A worker takes the oldest queued work item; the pool never runs more than
\* PoolSize(max_workers) items at once.
StartTask(i) ==
    /\ i \in Positions
    /\ task[i] = "queued"
    /\ \A j \in 1..(i - 1) : task[j] # "queued"
    /\ Cardinality(Running) < PoolSize(max_workers)
    /\ task' = [task EXCEPT ![i] = "running"]
    /\ UNCHANGED <<otherVars, written, strategy, outShape, observers, callerPc, callVars, bgPc,
                   submitted, collected, excText, pendingDone, gatherVars,
                   log>>

\* Variant: the pool worker reports the file itself when process returns.
TaskReturns_Notifies(i) ==
    /\ i \in Positions
    /\ task[i] = "running"
    /\ task' = [task EXCEPT ![i] = "returned"]
    /\ pendingDone' = Append(pendingDone, i)
    /\ written' = IF strategy = "Individual"
                      THEN written \cup {ArtifactOf(files[i])}
                      ELSE written
    /\ log' = Notify(FileCompleteEvent(files[i], ArtifactOf(files[i]), TRUE, ""))
    /\ UNCHANGED <<otherVars, strategy, outShape, observers, callerPc, callVars, bgPc,
                   submitted, collected, excText, gatherVars>>

\* _process_file returns what processor.process returned ...
TaskReturns(i) ==
    /\ i \in Positions
    /\ task[i] = "running"
    /\ task' = [task EXCEPT ![i] = "returned"]
    /\ pendingDone' = Append(pendingDone, i)
    /\ written' = IF strategy = "Individual"
                      THEN written \cup {ArtifactOf(files[i])}
                      ELSE written
    /\ UNCHANGED <<otherVars, strategy, outShape, observers, callerPc, callVars, bgPc,
                   submitted, collected, excText, gatherVars, log>>

\* ... or processor.process raised before writing; the future keeps the exception.
TaskRaises(i, text) ==
    /\ i \in Positions
    /\ task[i] = "running"
    /\ task' = [task EXCEPT ![i] = "raised"]
    /\ excText' = [excText EXCEPT ![i] = text]
    /\ pendingDone' = Append(pendingDone, i)
    /\ UNCHANGED <<otherVars, written, strategy, outShape, observers, callerPc, callVars, bgPc,
                   submitted, collected, gatherVars, log>>

\* ------------------------------------------------------------ result loop
\* Variant: the Adjoint loop reports the value process returned.
SuccessResult_PerFile(file) ==
    IF strategy = "Individual" THEN ArtifactOf(file) ELSE IntermediateOf(file)

\* The result argument of on_file_complete for a successful file.
SuccessResult(file) ==
    IF strategy = "Individual" THEN ArtifactOf(file) ELSE OutputPathStr

\* Variant: no try/except around future.result(): an exception of process
\* leaves the loop and ends the thread.
CollectOne_NoCatch ==
    /\ bgPc = "collect"
    /\ collected < N
    /\ Finished(collected + 1)
    /\ LET i == collected + 1
           file == files[i]
       IN  IF task[i] = "returned"
              THEN /\ log' = Notify(FileCompleteEvent(file, SuccessResult(file), TRUE, ""))
                   /\ results' = IF strategy = "Adjoint"
                                    THEN Append(results, IntermediateOf(file))
                                    ELSE results
                   /\ collected' = collected + 1
                   /\ pendingDone' = SelectSeq(pendingDone, LAMBDA p : p # i)
                   /\ UNCHANGED bgPc
              ELSE /\ bgPc' = "dead"
                   /\ UNCHANGED <<log, results, collected, pendingDone>>
    /\ UNCHANGED <<otherVars, written, strategy, outShape, observers, callerPc, callVars,
                   submitted, task, excText, procOutputPath,
                   gatherCalls, gatherOutcome>>

\* Variant: the failure is reported with the text of the batch's first
\* exception instead of the file's own.
CollectOne_FirstExcText ==
    /\ bgPc = "collect"
    /\ collected < N
    /\ Finished(collected + 1)
    /\ LET i == collected + 1
           file == files[i]
           first == CHOOSE j \in 1..i : task[j] = "raised"
                        /\ \A h \in 1..(j - 1) : task[h] # "raised"
       IN  IF task[i] = "returned"
              THEN /\ log' = Notify(FileCompleteEvent(file, SuccessResult(file), TRUE, ""))
                   /\ results' = IF strategy = "Adjoint"
                                    THEN Append(results, IntermediateOf(file))
                                    ELSE results
              ELSE /\ log' = Notify(FileCompleteEvent(file, "", FALSE, excText[first]))
                   /\ UNCHANGED results
    /\ collected' = collected + 1
    /\ pendingDone' = SelectSeq(pendingDone, LAMBDA p : p # collected + 1)
    /\ UNCHANGED <<otherVars, written, strategy, outShape, observers, callerPc, callVars, bgPc,
                   submitted, task, excText, procOutputPath,
                   gatherCalls, gatherOutcome>>

\* Variant: results.append(result) is missing.
CollectOne_NoAppend ==
    /\ bgPc = "collect"
    /\ collected < N
    /\ Finished(collected + 1)
    /\ LET i == collected + 1
           file == files[i]
       IN  IF task[i] = "returned"
              THEN log' = Notify(FileCompleteEvent(file, SuccessResult(file), TRUE, ""))
              ELSE log' = Notify(FileCompleteEvent(file, "", FALSE, excText[i]))
    /\ collected' = collected + 1
    /\ pendingDone' = SelectSeq(pendingDone, LAMBDA p : p # collected + 1)
    /\ UNCHANGED <<otherVars, written, strategy, outShape, observers, callerPc, callVars, bgPc,
                   submitted, task, excText, results, procOutputPath,
                   gatherCalls, gatherOutcome>>

\* Variant: the result is put at the head of the list.
CollectOne_Prepend ==
    /\ bgPc = "collect"
    /\ collected < N
    /\ Finished(collected + 1)
    /\ LET i == collected + 1
           file == files[i]
       IN  IF task[i] = "returned"
              THEN /\ log' = Notify(FileCompleteEvent(file, SuccessResult(file), TRUE, ""))
                   /\ results' = IF strategy = "Adjoint"
                                    THEN <<IntermediateOf(file)>> \o results
                                    ELSE results
              ELSE /\ log' = Notify(FileCompleteEvent(file, "", FALSE, excText[i]))
                   /\ UNCHANGED results
    /\ collected' = collected + 1
    /\ pendingDone' = SelectSeq(pendingDone, LAMBDA p : p # collected + 1)
    /\ UNCHANGED <<otherVars, written, strategy, outShape, observers, callerPc, callVars, bgPc,
                   submitted, task, excText, procOutputPath,
                   gatherCalls, gatherOutcome>>

\* for future, file in futures:
\*     try: result = future.result(); [results.append(result);]
\*          self._notify_file_complete(file, <result>, True)
\*     except Exception as e: self._notify_file_complete(file, "", False, str(e))
CollectOne ==
    /\ bgPc = "collect"
    /\ collected < N
    /\ Finished(collected + 1)
    /\ LET i == collected + 1
           file == files[i]
       IN  IF task[i] = "returned"
              THEN /\ log' = Notify(FileCompleteEvent(file, SuccessResult(file), TRUE, ""))
                   /\ results' = IF strategy = "Adjoint"
                                    THEN Append(results, IntermediateOf(file))
                                    ELSE results
              ELSE /\ log' = Notify(FileCompleteEvent(file, "", FALSE, excText[i]))
                   /\ UNCHANGED results
    /\ collected' = collected + 1
    /\ pendingDone' = SelectSeq(pendingDone, LAMBDA p : p # collected + 1)
    /\ UNCHANGED <<otherVars, written, strategy, outShape, observers, callerPc, callVars, bgPc,
                   submitted, task, excText, procOutputPath,
                   gatherCalls, gatherOutcome>>

\* Position of an observer in self.observers.
IndexOf(o) == CHOOSE k \in 1..Len(observers) : observers[k] = o

\* _notify_file_complete when the callback of the observer at position k
\* raises: the for loop has called the observers at positions 1..k and is
\* left by the exception; the observers after k are not called.
NotifyUpTo(lg, event, k) ==
    [o \in ObserverIds |->
        IF \E j \in 1..k : observers[j] = o THEN Append(lg[o], event) ELSE lg[o]]

\* str(e) of the exception an observer's callback raised.
ObserverExcText == "observer error"

\* One iteration of the result loop in which on_file_complete of the
\* observer bad raises. If process returned, the exception leaves the try
\* body after results.append(result) and is caught by "except Exception as
\* e", whose handler calls _notify_file_complete(file, "", False, str(e)):
\* every observer is called again; if bad raises again (or if the first call
\* was already the handler's, process having raised), nothing catches the
\* exception and it ends the thread.
CollectOneObserverRaises(bad, again) ==
    /\ bgPc = "collect"
    /\ collected < N
    /\ Finished(collected + 1)
    /\ bad \in SeqToSet(observers)
    /\ LET i == collected + 1
           file == files[i]
           k == IndexOf(bad)
           first == NotifyUpTo(log, FileCompleteEvent(file, SuccessResult(file), TRUE, ""), k)
           second == FileCompleteEvent(file, "", FALSE, ObserverExcText)
       IN  IF task[i] = "returned"
              THEN /\ results' = IF strategy = "Adjoint"
                                    THEN Append(results, IntermediateOf(file))
                                    ELSE results
                   /\ IF again
                         THEN /\ log' = NotifyUpTo(first, second, k)
                              /\ bgPc' = "dead"
                              /\ UNCHANGED <<collected, pendingDone>>
                         ELSE /\ log' = NotifyUpTo(first, second, Len(observers))
                              /\ collected' = collected + 1
                              /\ pendingDone' = SelectSeq(pendingDone, LAMBDA p : p # i)
                              /\ UNCHANGED bgPc
              ELSE /\ log' = NotifyUpTo(log, FileCompleteEvent(file, "", FALSE, excText[i]), k)
                   /\ bgPc' = "dead"
                   /\ UNCHANGED <<results, collected, pendingDone>>
    /\ UNCHANGED <<otherVars, written, strategy, outShape, observers, callerPc, callVars,
                   submitted, task, excText, procOutputPath,
                   gatherCalls, gatherOutcome>>

\* Leaving the with block: executor.shutdown(wait=True) joins every worker.
Shutdown ==
    /\ bgPc = "collect"
    /\ collected = N
    /\ \A i \in Positions : Finished(i)
    /\ bgPc' = IF strategy = "Adjoint" THEN "set_path" ELSE "complete"
    /\ UNCHANGED <<otherVars, written, strategy, outShape, observers, callerPc, callVars,
                   poolVars, gatherVars, log>>

\* Variant: the field is set only while it still holds None.
SetOutputPath_OnlyIfUnset ==
    /\ bgPc = "set_path"
    /\ procOutputPath' = IF procOutputPath = "None" THEN OutputPathStr ELSE procOutputPath
    /\ bgPc' = "gather"
    /\ UNCHANGED <<otherVars, written, strategy, outShape, observers, callerPc, callVars,
                   poolVars, results, gatherCalls, gatherOutcome, log>>

\* self.processor.output_path = self.output_path
SetOutputPath ==
    /\ bgPc = "set_path"
    /\ procOutputPath' = OutputPathStr
    /\ bgPc' = "gather"
    /\ UNCHANGED <<otherVars, written, strategy, outShape, observers, callerPc, callVars,
                   poolVars, results, gatherCalls, gatherOutcome, log>>

\* self._gather_results(results, save_format): processor.gather_results runs
\* once; it writes the aggregate file if it knows the format, or raises. An exception is not caught
\* anywhere in _process_files_thread, so it ends the thread.
GatherResults(ok) ==
    /\ bgPc = "gather"
    /\ gatherCalls' = Append(gatherCalls, results)
    /\ IF ok
          THEN /\ gatherOutcome' = "ok"
               /\ IF GatherWrites(save_format)
                     THEN outShape' = "file" /\ written' = {OutputPathStr}
                     ELSE UNCHANGED <<outShape, written>>
               /\ bgPc' = "complete"
          ELSE /\ gatherOutcome' = "raised"
               /\ UNCHANGED <<outShape, written>>
               /\ bgPc' = "dead"
    /\ UNCHANGED <<otherVars, strategy, observers, callerPc, callVars, poolVars, results,
                   procOutputPath, log>>

\* self._notify_complete()
NotifyComplete ==
    /\ bgPc = "complete"
    /\ log' = Notify(CompleteEvent)
    /\ bgPc' = "done"
    /\ UNCHANGED <<otherVars, written, strategy, outShape, observers, callerPc, callVars,
                   poolVars, gatherVars>>

\* The run has ended: process_files raised, or it returned and the background
\* thread is over. A new executor is then built around the same processor
\* instance for another output path, at which nothing or a file exists.
RunEnded ==
    \/ callerPc = "raised"
    \/ callerPc = "returned" /\ bgPc \in {"done", "dead"}

NextRun(shape) ==
    /\ RunEnded
    /\ runNo < MaxRuns
    /\ runNo' = runNo + 1
    /\ outShape' = shape
    /\ shapeBefore' = shape
    /\ observers' = <<>>
    /\ callerPc' = "idle"
    /\ files' = <<>>
    /\ max_workers' = NoWorkers
    /\ save_format' = "txt"
    /\ bgPc' = "unstarted"
    /\ submitted' = 0
    /\ collected' = 0
    /\ task' = [i \in 1..MaxFiles |-> "none"]
    /\ excText' = [i \in 1..MaxFiles |-> ""]
    /\ pendingDone' = <<>>
    /\ results' = <<>>
    /\ gatherOutcome' = "none"
    /\ written' = {}
    /\ UNCHANGED <<facVars, pmVars, depVars, overlapVars, strategy, procOutputPath,
                   gatherCalls, log>>

\* ====================================================== BatchProcessorFactory
\* The processor classes: the two contract variants and their plugins, a
\* direct IProcessor subclass, and the legacy model.processor.Processor with
\* its subclasses.
ClassIds ==
    {"Processor", "IProcessor", "IndividualProcessor", "AdjointProcessor",
     "SampleProcessor", "TextAnalyzer", "BareProcessor",
     "LegacyA1", "LegacyA2", "LegacyB", "LegacyHidden", "Path"}

\* The classes issubclass(c, .) holds for (c itself included).
Ancestors(c) ==
    CASE c = "IndividualProcessor" -> {"IndividualProcessor", "IProcessor"}
      [] c = "AdjointProcessor" -> {"AdjointProcessor", "IProcessor"}
      [] c = "SampleProcessor" -> {"SampleProcessor", "IndividualProcessor", "IProcessor"}
      [] c = "TextAnalyzer" -> {"TextAnalyzer", "AdjointProcessor", "IProcessor"}
      [] c = "BareProcessor" -> {"BareProcessor", "IProcessor"}
      [] c \in {"LegacyA1", "LegacyA2", "LegacyB", "LegacyHidden"} -> {c, "Processor"}
      [] OTHER -> {c}

\* processor.category: final in IndividualProcessor and AdjointProcessor,
\* UNKNOWN by default in IProcessor, the string "General" in the legacy class
\* unless a subclass overrides the property, as LegacyB does.
CategoryOf(c) ==
    CASE c = "LegacyB" -> "Text"
      [] "IndividualProcessor" \in Ancestors(c) -> "INDIVIDUAL"
      [] "AdjointProcessor" \in Ancestors(c) -> "ADJOINT"
      [] "IProcessor" \in Ancestors(c) -> "UNKNOWN"
      [] OTHER -> "General"

\* The processors handed to the factory, each an instance of its class.
FactoryProcessors == {"SampleProcessor", "TextAnalyzer", "BareProcessor", "LegacyA1"}
OutputPaths == {"results", "./results", "/data/out"}

\* Path(output_path).resolve(): absolute, normalised.
Resolve(path) ==
    CASE path = "results" -> "/cwd/results"
      [] path = "./results" -> "/cwd/results"
      [] OTHER -> path

NoExecutor == [strategy |-> "None", processor |-> "None", output_path |-> "None",
               observers |-> <<>>]

\* IBatchProcessor.__init__ through the strategy class.
NewExecutor(class, processor, path) ==
    [strategy |-> class, processor |-> processor, output_path |-> Resolve(path),
     observers |-> <<>>]

FacInit ==
    /\ processor_map = [c \in {"INDIVIDUAL", "ADJOINT"} |->
                           IF c = "INDIVIDUAL" THEN "Individual" ELSE "Adjoint"]
    /\ facPc = "idle"
    /\ facProcessor = "None"
    /\ facPath = "None"
    /\ facResult = NoExecutor
    /\ created = <<>>

\* Variant: the two entries of the map are exchanged.
LookupStrategy_Swapped(category) ==
    IF category \in DOMAIN processor_map
       THEN (IF processor_map[category] = "Individual" THEN "Adjoint" ELSE "Individual")
       ELSE "None"

\* Variant: a category without entry falls back to the Individual strategy.
LookupStrategy_Default(category) ==
    IF category \in DOMAIN processor_map THEN processor_map[category] ELSE "Individual"

\* cls._processor_map.get(processor.category)
LookupStrategy(category) ==
    IF category \in DOMAIN processor_map THEN processor_map[category] ELSE "None"

\* create_batch_processor(processor, output_path)
CreateBatchProcessor(processor, path) ==
    /\ Len(created) < MaxCreated
    /\ facProcessor' = processor
    /\ facPath' = path
    /\ LET processor_class == LookupStrategy(CategoryOf(processor))
       IN  IF processor_class = "None"
              THEN /\ facPc' = "raised"
                   /\ facResult' = NoExecutor
                   /\ UNCHANGED created
              ELSE /\ facPc' = "returned"
                   /\ facResult' = NewExecutor(processor_class, processor, path)
                   /\ created' = Append(created, NewExecutor(processor_class, processor, path))
    /\ UNCHANGED <<execVars, pmVars, depVars, processor_map>>

FacNext ==
    \E processor \in FactoryProcessors, path \in OutputPaths :
        CreateBatchProcessor(processor, path)

\* ============================================================ PluginManager
\* The files a plugin directory may hold.
PluginFiles ==
    {"legacy_a.py", "legacy_b.py", "sample_processor.py", "text_analyzer.py",
     "broken.py", "_private.py", "notes.txt"}

\* Variant: no file counts as private.
StartsWithUnderscore_Never(file) == FALSE

\* item.name.startswith("_")
StartsWithUnderscore(file) == file = "_private.py"

\* glob("*.py")
MatchesGlob(file) == file # "notes.txt"

\* importlib.import_module(stem) and, after a failure, import_module("plugins." + stem):
\* "direct" loads at once, "fallback" only by the second path, "fails" by neither.
LoadKind(file) ==
    CASE file = "broken.py" -> "fails"
      [] file = "legacy_b.py" -> "fallback"
      [] OTHER -> "direct"

\* inspect.getmembers(module): the module's attributes, sorted by name ("os" is
\* a module, the others are classes, defined there or imported).
MembersOf(file) ==
    CASE file = "legacy_a.py" -> <<"LegacyA1", "Processor">>
      [] file = "legacy_b.py" -> <<"LegacyA2", "LegacyB", "Processor">>
      [] file = "sample_processor.py" -> <<"IndividualProcessor", "SampleProcessor", "os">>
      [] file = "text_analyzer.py" -> <<"AdjointProcessor", "Path", "TextAnalyzer">>
      [] file = "_private.py" -> <<"LegacyHidden", "Processor">>
      [] OTHER -> <<>>

\* obj.__name__: two plugin modules each define a class called LegacyA.
PyName(c) == IF c \in {"LegacyA1", "LegacyA2"} THEN "LegacyA" ELSE c

\* The name property of an instance.
DisplayName(c) ==
    CASE c = "LegacyA1" -> "Legacy A"
      [] c = "LegacyA2" -> "Legacy A2"
      [] c = "LegacyB" -> "Legacy A"
      [] c = "LegacyHidden" -> "Hidden"
      [] c = "SampleProcessor" -> "Sample Processor"
      [] c = "TextAnalyzer" -> "Text Analyzer"
      [] OTHER -> "None"

AskedNames == {"Legacy A", "Legacy A2", "Sample Processor", "Missing"}

\* inspect.isclass(obj) and issubclass(obj, Processor) and obj != Processor,
\* Processor being model.processor.Processor.
IsPluginClass(obj) ==
    /\ obj \in ClassIds
    /\ "Processor" \in Ancestors(obj)
    /\ obj # "Processor"

\* self.processor_classes[key] = cls on a dict kept in insertion order.
DictSet(dict, key, cls) ==
    IF \E i \in 1..Len(dict) : dict[i].key = key
       THEN [i \in 1..Len(dict) |->
                IF dict[i].key = key THEN [key |-> key, cls |-> cls] ELSE dict[i]]
       ELSE Append(dict, [key |-> key, cls |-> cls])

\* The loop over inspect.getmembers(module) from member k on.
RECURSIVE ScanMembers(_, _, _)
ScanMembers(members, k, acc) ==
    IF k > Len(members)
       THEN acc
       ELSE ScanMembers(members, k + 1,
                IF IsPluginClass(members[k])
                   THEN [acc EXCEPT
                           !.found = Append(@, members[k]),
                           !.classes = DictSet(@, PyName(members[k]), members[k])]
                   ELSE acc)

\* The import_module calls made for one plugin file: by its stem, and after a
\* failure by "plugins." + stem.
ImportsOf(file) ==
    IF LoadKind(file) = "direct"
       THEN <<[file |-> file, via |-> "direct"]>>
       ELSE <<[file |-> file, via |-> "direct"], [file |-> file, via |-> "fallback"]>>

\* One plugin file: try the direct import, on failure the fallback import; a
\* module neither path loads contributes nothing.
ScanFile(file, acc) ==
    LET tried == [acc EXCEPT !.imports = @ \o ImportsOf(file)]
    IN  IF LoadKind(file) = "fails"
           THEN tried
           ELSE ScanMembers(MembersOf(file), 1, tried)

\* for plugin_file in plugin_files, from file k of the listing on.
RECURSIVE ScanFiles(_, _, _)
ScanFiles(listing, k, acc) ==
    IF k > Len(listing)
       THEN acc
       ELSE ScanFiles(listing, k + 1, ScanFile(listing[k], acc))

\* glob() lists the directory in the file system's order. Three listings which
\* between them put every two files both ways round and the module that fails
\* to load first, in the middle and last among the candidates.
Listings ==
    {<<"_private.py", "broken.py", "legacy_a.py", "legacy_b.py", "notes.txt",
       "sample_processor.py", "text_analyzer.py">>,
     <<"text_analyzer.py", "sample_processor.py", "notes.txt", "legacy_b.py",
       "legacy_a.py", "broken.py", "_private.py">>,
     <<"legacy_a.py", "sample_processor.py", "broken.py", "_private.py",
       "notes.txt", "text_analyzer.py", "legacy_b.py">>}

\* plugin_files: glob("*.py") in listing order, names starting with "_" dropped.
IsCandidate(file) ==
    file \in pluginDir /\ MatchesGlob(file) /\ ~StartsWithUnderscore(file)
Candidates(listing) == SelectSeq(listing, IsCandidate)

\* discover_plugins: what it returns (found) and what it leaves in
\* self.processor_classes (classes), which it first empties.
Discovered(listing) ==
    ScanFiles(Candidates(listing), 1,
              [found |-> <<>>, classes |-> <<>>, imports |-> <<>>])

\* get_processor_instances: discover only when processor_classes is empty ...
ClassesForInstances(listing) ==
    IF processor_classes = <<>> THEN Discovered(listing).classes ELSE processor_classes
ImportsForInstances(listing) ==
    IF processor_classes = <<>> THEN Discovered(listing).imports ELSE <<>>

\* ... then {name: cls() for name, cls in self.processor_classes.items()}.
Instantiate(classes, serial) ==
    [i \in 1..Len(classes) |->
        [key |-> classes[i].key, cls |-> classes[i].cls, serial |-> serial]]

NoCall == [op |-> "none", arg |-> "", raised |-> FALSE, ret |-> <<>>, imports |-> <<>>]

\* A new PluginManager on a plugin directory holding the repository's plugins.
PmInit ==
    /\ pluginDir = {"sample_processor.py", "text_analyzer.py"}
    /\ processor_classes = <<>>
    /\ processors = <<>>
    /\ instantiations = 0
    /\ pmCall = NoCall

\* Between calls the user adds a file to the plugin directory or removes one.
AddPluginFile(file) ==
    /\ file \notin pluginDir
    /\ pluginDir' = pluginDir \cup {file}
    /\ pmCall' = NoCall
    /\ UNCHANGED <<execVars, facVars, depVars, processor_classes, processors, instantiations>>

RemovePluginFile(file) ==
    /\ file \in pluginDir
    /\ pluginDir' = pluginDir \ {file}
    /\ pmCall' = NoCall
    /\ UNCHANGED <<execVars, facVars, depVars, processor_classes, processors, instantiations>>

\* discover_plugins()
DiscoverPlugins(listing) ==
    /\ processor_classes' = Discovered(listing).classes
    /\ pmCall' = [op |-> "discover_plugins", arg |-> "", raised |-> FALSE,
                  imports |-> Discovered(listing).imports,
                  ret |-> [i \in 1..Len(Discovered(listing).found) |->
                              [key |-> PyName(Discovered(listing).found[i]),
                               cls |-> Discovered(listing).found[i], serial |-> 0]]]
    /\ UNCHANGED <<execVars, facVars, depVars, pluginDir, processors, instantiations>>

\* get_processor_instances()
GetProcessorInstances(listing) ==
    /\ instantiations < MaxInstantiations
    /\ processor_classes' = ClassesForInstances(listing)
    /\ instantiations' = instantiations + 1
    /\ processors' = Instantiate(ClassesForInstances(listing), instantiations + 1)
    /\ pmCall' = [op |-> "get_processor_instances", arg |-> "", raised |-> FALSE,
                  imports |-> ImportsForInstances(listing),
                  ret |-> Instantiate(ClassesForInstances(listing), instantiations + 1)]
    /\ UNCHANGED <<execVars, facVars, depVars, pluginDir>>

\* MainWindow._refresh_plugins: self.processors = plugin_manager.get_processor_instances()
RefreshPlugins(listing) ==
    /\ instantiations < MaxInstantiations
    /\ processor_classes' = ClassesForInstances(listing)
    /\ instantiations' = instantiations + 1
    /\ processors' = Instantiate(ClassesForInstances(listing), instantiations + 1)
    /\ pmCall' = [op |-> "_refresh_plugins", arg |-> "", raised |-> FALSE,
                  imports |-> ImportsForInstances(listing),
                  ret |-> Instantiate(ClassesForInstances(listing), instantiations + 1)]
    /\ UNCHANGED <<execVars, facVars, depVars, pluginDir>>

\* The head of the list, whatever its name.
FirstNamed_Unchecked(list, name) ==
    IF list = <<>> THEN <<>> ELSE <<list[1]>>

\* The first processor of the list whose name is the one asked for.
FirstNamed(list, name) ==
    LET at == {i \in 1..Len(list) : DisplayName(list[i].cls) = name}
    IN  IF at = {} THEN <<>>
        ELSE <<list[CHOOSE i \in at : \A j \in at : i <= j]>>

\* get_processor_by_name(name): for processor in self.get_processor_instances():
\* if processor.name == name: return processor; raise ValueError
GetProcessorByName(name, listing) ==
    /\ instantiations < MaxInstantiations
    /\ processor_classes' = ClassesForInstances(listing)
    /\ instantiations' = instantiations + 1
    /\ processors' = Instantiate(ClassesForInstances(listing), instantiations + 1)
    /\ pmCall' = [op |-> "get_processor_by_name", arg |-> name,
                  imports |-> ImportsForInstances(listing),
                  raised |-> FirstNamed(processors', name) = <<>>,
                  ret |-> FirstNamed(processors', name)]
    /\ UNCHANGED <<execVars, facVars, depVars, pluginDir>>

AskedCategories == {"General", "Text"}

\* get_processors_by_category(category):
\* [p for p in self.get_processor_instances() if p.category == category]
GetProcessorsByCategory(category, listing) ==
    /\ instantiations < MaxInstantiations
    /\ processor_classes' = ClassesForInstances(listing)
    /\ instantiations' = instantiations + 1
    /\ processors' = Instantiate(ClassesForInstances(listing), instantiations + 1)
    /\ pmCall' = [op |-> "get_processors_by_category", arg |-> category,
                  imports |-> ImportsForInstances(listing),
                  raised |-> FALSE,
                  ret |-> SelectSeq(processors',
                                    LAMBDA p : CategoryOf(p.cls) = category)]
    /\ UNCHANGED <<execVars, facVars, depVars, pluginDir>>

PmNext ==
    \/ \E file \in PluginFiles : AddPluginFile(file)
    \/ \E file \in PluginFiles : RemovePluginFile(file)
    \/ \E listing \in Listings : DiscoverPlugins(listing)
    \/ \E listing \in Listings : GetProcessorInstances(listing)
    \/ \E listing \in Listings : RefreshPlugins(listing)
    \/ \E name \in AskedNames, listing \in Listings : GetProcessorByName(name, listing)
    \/ \E category \in AskedCategories, listing \in Listings :
          GetProcessorsByCategory(category, listing)

\* ================================================== check_dependencies
\* The names a processor may declare as dependencies, and how
\* importlib.import_module(dep) ends in an environment: it returns, it raises
\* ImportError (the module is not installed), or it raises another exception
\* (the module is installed and its import fails, as pandas does with
\* ValueError on a binary-incompatible numpy).
DepNames == {"pandas", "numpy"}
ImportOutcomes == {"ok", "ImportError", "OtherError"}
Environments == [DepNames -> ImportOutcomes]
DependencyLists == UNION {[1..n -> DepNames] : n \in 0..MaxDeps}

\* for dep in self.dependencies: try: importlib.import_module(dep)
\*                               except ImportError: missing.append(dep)
\* return (len(missing) == 0, missing)
RECURSIVE CheckLoop(_, _, _, _)
CheckLoop(deps, env, k, missing) ==
    IF k > Len(deps)
       THEN [raised |-> FALSE, ok |-> Len(missing) = 0, missing |-> missing]
       ELSE CASE env[deps[k]] = "ok" -> CheckLoop(deps, env, k + 1, missing)
              [] env[deps[k]] = "ImportError" ->
                     CheckLoop(deps, env, k + 1, Append(missing, deps[k]))
              [] OTHER -> [raised |-> TRUE, ok |-> FALSE, missing |-> <<>>]

DepInit ==
    depCall = [called |-> FALSE, deps |-> <<>>, env |-> [d \in DepNames |-> "ok"],
               raised |-> FALSE, ok |-> FALSE, missing |-> <<>>]

\* processor.check_dependencies() of a processor declaring deps, in env.
CheckDependencies(deps, env) ==
    /\ depCall' = [called |-> TRUE, deps |-> deps, env |-> env,
                   raised |-> CheckLoop(deps, env, 1, <<>>).raised,
                   ok |-> CheckLoop(deps, env, 1, <<>>).ok,
                   missing |-> CheckLoop(deps, env, 1, <<>>).missing]
    /\ UNCHANGED <<execVars, facVars, pmVars>>

DepNext ==
    \E deps \in DependencyLists, env \in Environments : CheckDependencies(deps, env)

\* ------------------------------------ two Adjoint runs sharing one processor
\* Two AdjointBatchProcessor objects built around the same processor instance,
\* each with its own output path; both process_files calls have returned and
\* the two background threads run side by side. Each run has OverlapBatch files.
Runs == {"runA", "runB"}
RunPath(r) == IF r = "runA" THEN "output_path" ELSE "output_path_2"

OverlapInit ==
    /\ runPc = [r \in Runs |-> "unstarted"]
    /\ runCollected = [r \in Runs |-> 0]
    /\ gatherSawPath = [r \in Runs |-> "none"]

aroundOverlap == <<strategy, outShape, observers, callerPc, callVars, bgPc, poolVars,
                   results, gatherCalls, gatherOutcome, log, written, runNo, shapeBefore,
                   facVars, pmVars, depVars>>

\* process_files of run r: validation, _notify_start, thread.start().
OverlapProcessFiles(r) ==
    /\ runPc[r] = "unstarted"
    /\ runPc' = [runPc EXCEPT ![r] = "collect"]
    /\ UNCHANGED <<aroundOverlap, procOutputPath, runCollected, gatherSawPath>>

\* One iteration of the result loop of run r.
OverlapCollectOne(r) ==
    /\ runPc[r] = "collect"
    /\ runCollected[r] < OverlapBatch
    /\ runCollected' = [runCollected EXCEPT ![r] = @ + 1]
    /\ UNCHANGED <<aroundOverlap, procOutputPath, runPc, gatherSawPath>>

\* The with block of run r is left.
OverlapShutdown(r) ==
    /\ runPc[r] = "collect"
    /\ runCollected[r] = OverlapBatch
    /\ runPc' = [runPc EXCEPT ![r] = "set_path"]
    /\ UNCHANGED <<aroundOverlap, procOutputPath, runCollected, gatherSawPath>>

\* self.processor.output_path = self.output_path, in the thread of run r.
OverlapSetOutputPath(r) ==
    /\ runPc[r] = "set_path"
    /\ procOutputPath' = RunPath(r)
    /\ runPc' = [runPc EXCEPT ![r] = "gather"]
    /\ UNCHANGED <<aroundOverlap, runCollected, gatherSawPath>>

\* self._gather_results(results, save_format), in the thread of run r:
\* gather_results reads self.output_path of the shared processor.
OverlapGatherResults(r) ==
    /\ runPc[r] = "gather"
    /\ gatherSawPath' = [gatherSawPath EXCEPT ![r] = procOutputPath]
    /\ runPc' = [runPc EXCEPT ![r] = "complete"]
    /\ UNCHANGED <<aroundOverlap, procOutputPath, runCollected>>

\* self._notify_complete(), in the thread of run r.
OverlapNotifyComplete(r) ==
    /\ runPc[r] = "complete"
    /\ runPc' = [runPc EXCEPT ![r] = "done"]
    /\ UNCHANGED <<aroundOverlap, procOutputPath, runCollected, gatherSawPath>>

OverlapNext ==
    \/ \E r \in Runs : OverlapProcessFiles(r)
    \/ \E r \in Runs : OverlapCollectOne(r)
    \/ \E r \in Runs : OverlapShutdown(r)
    \/ \E r \in Runs : OverlapSetOutputPath(r)
    \/ \E r \in Runs : OverlapGatherResults(r)
    \/ \E r \in Runs : OverlapNotifyComplete(r)

Init == ExecInit /\ FacInit /\ PmInit /\ DepInit /\ OverlapInit

\* ------------------------------------------------------------------ Next
Next ==
    \/ \E o \in ObserverIds : AddObserver(o)
    \/ \E o \in ObserverIds : RemoveObserver(o)
    \/ \E fs \in FileLists, mw \in WorkerChoices, fmt \in DeclaredFormats :
          ProcessFiles(fs, mw, fmt)
    \/ NotifyStart
    \/ ThreadStart
    \/ Return
    \/ CreatePool
    \/ Submit
    \/ \E i \in 1..MaxFiles : StartTask(i)
    \/ \E i \in 1..MaxFiles : TaskReturns(i)
    \/ \E i \in 1..MaxFiles, text \in ExcTexts : TaskRaises(i, text)
    \/ CollectOne
    \/ Shutdown
    \/ SetOutputPath
    \/ \E ok \in BOOLEAN : GatherResults(ok)
    \/ NotifyComplete

\* One run of one executor. The callbacks of the observers return normally,
\* max_workers is None or a positive integer and save_format is a format the
\* processor declares; process may raise for any file and gather_results may
\* raise.
Spec == Init /\ [][Next]_vars

\* One run of one executor on a batch of distinct paths, with any save_format
\* and the default pool size, observed by at most one observer.
OutputsNext ==
    \/ \E o \in {"o1"} : AddObserver(o)
    \/ \E fs \in DistinctLists, fmt \in SaveFormats : ProcessFiles(fs, NoWorkers, fmt)
    \/ NotifyStart
    \/ ThreadStart
    \/ Return
    \/ CreatePool
    \/ Submit
    \/ \E i \in 1..MaxFiles : StartTask(i)
    \/ \E i \in 1..MaxFiles : TaskReturns(i)
    \/ \E i \in 1..MaxFiles : TaskRaises(i, "boom")
    \/ CollectOne
    \/ Shutdown
    \/ SetOutputPath
    \/ \E ok \in BOOLEAN : GatherResults(ok)
    \/ NotifyComplete

SpecOutputs == Init /\ [][OutputsNext]_vars

\* Back-to-back runs on one processor instance: batches of at most two files,
\* the default pool size, a declared format, no observer.
ReuseLists == {fs \in FileLists : Len(fs) <= 2}
ReuseNext ==
    \/ \E fs \in ReuseLists : ProcessFiles(fs, NoWorkers, "txt")
    \/ NotifyStart
    \/ ThreadStart
    \/ Return
    \/ CreatePool
    \/ Submit
    \/ \E i \in 1..MaxFiles : StartTask(i)
    \/ \E i \in 1..MaxFiles : TaskReturns(i)
    \/ \E i \in 1..MaxFiles : TaskRaises(i, "boom")
    \/ CollectOne
    \/ Shutdown
    \/ SetOutputPath
    \/ \E ok \in BOOLEAN : GatherResults(ok)
    \/ NotifyComplete
    \/ \E shape \in {"absent", "file"} : NextRun(shape)

SpecReuse == Init /\ [][ReuseNext]_vars

\* The specifications below leave the executor alone: it is one Individual
\* executor on an output path at which nothing exists.
InitAside == Init /\ strategy = "Individual" /\ outShape = "absent"

\* One run during which the caller goes on registering and unregistering
\* observers: batches of at most two files, the default pool size.
LateNext ==
    \/ \E o \in ObserverIds : AddObserver(o)
    \/ \E o \in ObserverIds : AddObserverLate(o)
    \/ \E o \in ObserverIds : RemoveObserverLate(o)
    \/ \E fs \in ReuseLists : ProcessFiles(fs, NoWorkers, "txt")
    \/ NotifyStart
    \/ ThreadStart
    \/ Return
    \/ CreatePool
    \/ Submit
    \/ \E i \in 1..MaxFiles : StartTask(i)
    \/ \E i \in 1..MaxFiles : TaskReturns(i)
    \/ \E i \in 1..MaxFiles : TaskRaises(i, "boom")
    \/ CollectOne
    \/ Shutdown
    \/ SetOutputPath
    \/ \E ok \in BOOLEAN : GatherResults(ok)
    \/ NotifyComplete

SpecLate == Init /\ [][LateNext]_vars

\* One run under fair scheduling of the threads: batches of at most two
\* files, max_workers None, positive, zero or negative, at most one observer;
\* process may raise, gather_results returns.
LiveWorkers == {NoWorkers, <<1>>, <<0>>, <<-1>>}
LiveNext ==
    \/ \E o \in {"o1"} : AddObserver(o)
    \/ \E fs \in ReuseLists, mw \in LiveWorkers : ProcessFiles(fs, mw, "txt")
    \/ NotifyStart
    \/ ThreadStart
    \/ Return
    \/ CreatePool
    \/ Submit
    \/ \E i \in 1..MaxFiles : StartTask(i)
    \/ \E i \in 1..MaxFiles : TaskReturns(i)
    \/ \E i \in 1..MaxFiles : TaskRaises(i, "boom")
    \/ CollectOne
    \/ Shutdown
    \/ SetOutputPath
    \/ GatherResults(TRUE)
    \/ NotifyComplete

SpecLive == Init /\ [][LiveNext]_vars /\ WF_vars(LiveNext)

\* One run started by the main window under fair scheduling of the threads:
\* MainWindow._process_files turns a max_workers below 1 into None and passes
\* the format taken from the combo box, or "".
WindowNext ==
    \/ \E o \in {"o1"} : AddObserver(o)
    \/ \E fs \in ReuseLists, mw \in WorkerChoices, fmt \in SaveFormats :
          ProcessFiles(fs, mw, fmt)
    \/ NotifyStart
    \/ ThreadStart
    \/ Return
    \/ CreatePool
    \/ Submit
    \/ \E i \in 1..MaxFiles : StartTask(i)
    \/ \E i \in 1..MaxFiles : TaskReturns(i)
    \/ \E i \in 1..MaxFiles : TaskRaises(i, "boom")
    \/ CollectOne
    \/ Shutdown
    \/ SetOutputPath
    \/ \E ok \in BOOLEAN : GatherResults(ok)
    \/ NotifyComplete

SpecWindow == Init /\ [][WindowNext]_vars /\ WF_vars(WindowNext)

\* One run in which on_file_complete of an observer may raise: batches of at
\* most two files, the default pool size.
RaisingNext ==
    \/ \E o \in ObserverIds : AddObserver(o)
    \/ \E fs \in ReuseLists : ProcessFiles(fs, NoWorkers, "txt")
    \/ NotifyStart
    \/ ThreadStart
    \/ Return
    \/ CreatePool
    \/ Submit
    \/ \E i \in 1..MaxFiles : StartTask(i)
    \/ \E i \in 1..MaxFiles : TaskReturns(i)
    \/ \E i \in 1..MaxFiles : TaskRaises(i, "boom")
    \/ CollectOne
    \/ \E bad \in ObserverIds, again \in BOOLEAN : CollectOneObserverRaises(bad, again)
    \/ Shutdown
    \/ SetOutputPath
    \/ \E ok \in BOOLEAN : GatherResults(ok)
    \/ NotifyComplete

SpecRaising == Init /\ [][RaisingNext]_vars

\* Two overlapping Adjoint runs on one processor instance, nothing else.
InitOverlap == Init /\ strategy = "Adjoint" /\ outShape = "absent"
SpecOverlap == InitOverlap /\ [][OverlapNext]_vars

\* Calls of the factory alone.
SpecFactory == InitAside /\ [][FacNext]_vars

\* Calls of the plugin manager, between changes of the plugin directory.
SpecPlugins == InitAside /\ [][PmNext]_vars

\* Calls of check_dependencies alone.
SpecDeps == InitAside /\ [][DepNext]_vars

\* ------------------------------------------------- vocabulary of the claims
Registered == SeqToSet(observers)
EventsOf(o, kind) == SelectSeq(log[o], LAMBDA e : e.kind = kind)
CountOf(o, kind) == Len(EventsOf(o, kind))
FileCompletes(o) == EventsOf(o, "file_complete")
ThreadEnded == bgPc \in {"done", "dead"}
PositionsOf(file) == {i \in Positions : files[i] = file}
TimesReported(o, file) ==
    Len(SelectSeq(FileCompletes(o), LAMBDA e : e.file = file))
\* Index in log[o] of the last file_complete event, 0 if there is none.
LastFileComplete(o) ==
    LET at == {k \in 1..Len(log[o]) : log[o][k].kind = "file_complete"}
    IN  IF at = {} THEN 0 ELSE CHOOSE k \in at : \A j \in at : j <= k
PastResultLoop == bgPc \in {"set_path", "gather", "complete", "done", "dead"}

\* C1: once the background thread of a run has ended, every registered
\* observer has received exactly one on_start(N), exactly N on_file_complete
\* (each file as often as it occurs in the input list) and exactly one
\* on_complete, whatever the process calls did.
C1_ExactlyOneOfEach ==
    ThreadEnded =>
        \A o \in Registered :
            /\ CountOf(o, "start") = 1
            /\ \A k \in 1..Len(log[o]) :
                   log[o][k].kind = "start" => log[o][k].total = N
            /\ CountOf(o, "file_complete") = N
            /\ \A f \in FileNames : TimesReported(o, f) = Cardinality(PositionsOf(f))
            /\ CountOf(o, "complete") = 1

\* C2: on_start reaches every registered observer before a task is submitted
\* to the pool and before any on_file_complete.
C2_StartBeforeWork ==
    \A o \in Registered :
        ((\E i \in 1..MaxFiles : task[i] # "none") \/ CountOf(o, "file_complete") > 0)
            => /\ log[o] # <<>>
               /\ log[o][1].kind = "start"
               /\ log[o][1].total = N

C2_Witness ==
    /\ Registered # {}
    /\ \E i \in Positions : task[i] = "running"
    /\ \E o \in Registered : CountOf(o, "file_complete") > 0

\* C3: on_complete is emitted exactly once per run, after the on_file_complete
\* of every input file; in the Adjoint strategy gather_results runs after the
\* last on_file_complete and before on_complete.
C3_CompleteOnceAfterAll ==
    /\ \A o \in Registered :
           /\ CountOf(o, "complete") <= 1
           /\ \A k \in 1..Len(log[o]) :
                  log[o][k].kind = "complete"
                      => /\ k > LastFileComplete(o)
                         /\ CountOf(o, "file_complete") = N
                         /\ strategy = "Adjoint" => Len(gatherCalls) = 1
    /\ gatherCalls # <<>> => collected = N
    /\ ThreadEnded => \A o \in Registered : CountOf(o, "complete") = 1

\* C4: a process call that raises is reported as a failure of its own file
\* only; every file is processed, each reported success flag is the outcome of
\* that file's own process call, and no per-file exception ends the thread.
C4_FailureIsolation ==
    /\ \A o \in Registered :
           \A k \in 1..Len(FileCompletes(o)) :
               /\ k <= N
               /\ FileCompletes(o)[k].file = files[k]
               /\ FileCompletes(o)[k].success = (task[k] = "returned")
    /\ PastResultLoop => \A i \in Positions : Finished(i)
    /\ PastResultLoop => \A o \in Registered : CountOf(o, "file_complete") = N
    /\ bgPc = "dead" => gatherOutcome = "raised"

C4_Witness ==
    /\ Registered # {}
    /\ PastResultLoop
    /\ \E i, j \in Positions : task[i] = "raised" /\ task[j] = "returned" /\ i < j

\* C5: in an Adjoint run gather_results is invoked exactly once, only after
\* every submitted task has finished, with exactly the intermediate results of
\* the files whose process call succeeded.
TimesIn(seq, x) == Len(SelectSeq(seq, LAMBDA y : y = x))
SucceededWith(r) ==
    {i \in Positions : task[i] = "returned" /\ IntermediateOf(files[i]) = r}
C5_GatherOnceAfterBarrier ==
    strategy = "Adjoint" =>
        /\ Len(gatherCalls) <= 1
        /\ gatherCalls # <<>> =>
               /\ \A i \in Positions : Finished(i)
               /\ submitted = N
               /\ \A f \in FileNames :
                      TimesIn(gatherCalls[1], IntermediateOf(f))
                          = Cardinality(SucceededWith(IntermediateOf(f)))
               /\ Len(gatherCalls[1])
                      = Cardinality({i \in Positions : task[i] = "returned"})
        /\ bgPc \in {"complete", "done", "dead"} => Len(gatherCalls) = 1

C5_Witness ==
    /\ strategy = "Adjoint"
    /\ bgPc = "done"
    /\ Len(gatherCalls) = 1
    /\ \E i, j \in Positions : task[i] = "raised" /\ task[j] = "returned"

\* C6: when gather_results raises, observers are told: after the last
\* on_file_complete every registered observer still receives a terminal
\* signal (on_complete or another run-level event).
C6_GatherFailureSignalled ==
    (ThreadEnded /\ gatherOutcome = "raised") =>
        \A o \in Registered :
            /\ Len(log[o]) > LastFileComplete(o)
            /\ log[o][Len(log[o])].kind \notin {"start", "file_complete"}

\* C7: a target of the wrong shape (Adjoint: an existing directory,
\* Individual: an existing regular file) makes process_files raise to its
\* caller at once: no observer event, no background thread, no process call.
TargetMismatch ==
    \/ strategy = "Adjoint" /\ outShape = "dir"
    \/ strategy = "Individual" /\ outShape = "file"
NothingHappened ==
    /\ \A o \in ObserverIds : log[o] = <<>>
    /\ bgPc = "unstarted"
    /\ submitted = 0
    /\ \A i \in 1..MaxFiles : task[i] = "none"
C7_MismatchRaisesSynchronously ==
    /\ []((TargetMismatch /\ callerPc # "idle") => callerPc = "raised")
    /\ [](callerPc = "raised" => NothingHappened)
    /\ [][(TargetMismatch /\ callerPc = "idle" /\ callerPc' # "idle")
              => callerPc' = "raised"]_vars

C7_Witness ==
    /\ callerPc = "raised"
    /\ TargetMismatch
    /\ Registered # {}
    /\ files # <<>>

\* C8: process_files returns without waiting for the run: from the moment the
\* thread is started the return is possible whatever the tasks are doing, and
\* tasks, on_file_complete and on_complete only happen after the launch.
C8_ReturnsWithoutWaiting ==
    /\ callerPc = "launched" => ENABLED Return
    /\ ((\E i \in 1..MaxFiles : task[i] # "none")
          \/ (\E o \in Registered :
                 CountOf(o, "file_complete") + CountOf(o, "complete") > 0))
           => callerPc \in {"launched", "returned"}

C8_Witness ==
    /\ callerPc = "returned"
    /\ N > 0
    /\ submitted = 0
    /\ bgPc \in {"pool", "submit"}

\* C9: with a positive max_workers, never more than max_workers process calls
\* execute at the same time.
C9_BoundedParallelism ==
    max_workers # NoWorkers => Cardinality(Running) <= max_workers[1]

C9_Witness ==
    /\ max_workers # NoWorkers
    /\ N > max_workers[1]
    /\ Cardinality(Running) = max_workers[1]
    /\ \E i \in Positions : task[i] = "queued"

\* C10: on_file_complete events are delivered in the order the tasks
\* complete: each delivery reports the oldest completed task that has not
\* been reported yet.
C10_CompletionOrder ==
    [][collected' = collected + 1 => pendingDone[1] = collected + 1]_vars

\* C11: every on_file_complete delivered with success=False carries a
\* non-empty message, whatever the text of the exception process raised.
C11_FailureMessageNonEmpty ==
    \A o \in Registered :
        \A k \in 1..Len(FileCompletes(o)) :
            ~FileCompletes(o)[k].success => FileCompletes(o)[k].message # ""

\* C12: in an Adjoint run every on_file_complete, success or failure, carries
\* an empty result field.
C12_AdjointResultEmpty ==
    strategy = "Adjoint" =>
        \A o \in Registered :
            \A k \in 1..Len(FileCompletes(o)) : FileCompletes(o)[k].result = ""

\* C12 as amended: in an Adjoint run an on_file_complete reporting a failure
\* carries an empty result field, and one reporting a success carries the
\* run's output path (the aggregate file), never a per-file value.
C12_AdjointResultIsOutputPath ==
    strategy = "Adjoint" =>
        \A o \in Registered :
            \A k \in 1..Len(FileCompletes(o)) :
                FileCompletes(o)[k].result =
                    IF task[k] = "returned" THEN "output_path" ELSE ""

C12_Witness ==
    /\ strategy = "Adjoint"
    /\ \E o \in Registered :
           /\ Len(FileCompletes(o)) >= 2
           /\ \E j, k \in 1..Len(FileCompletes(o)) :
                  FileCompletes(o)[j].success /\ ~FileCompletes(o)[k].success

\* C13: in an Individual run the on_file_complete of a position whose process
\* call returned carries success=True and the artifact process returned for
\* that file; the one of a position whose call raised carries success=False,
\* an empty result and the text of that call's own exception.
C13_IndividualAttribution ==
    strategy = "Individual" =>
        \A o \in Registered :
            \A k \in 1..Len(FileCompletes(o)) :
                LET e == FileCompletes(o)[k]
                IN  /\ e.file = files[k]
                    /\ task[k] = "returned" =>
                           /\ e.success
                           /\ e.result = (IF files[k] = "f1" THEN "out/f1" ELSE "out/f2")
                    /\ task[k] = "raised" =>
                           /\ ~e.success
                           /\ e.result = ""
                           /\ e.message = excText[k]

C13_Witness ==
    /\ strategy = "Individual"
    /\ \E o \in Registered :
           /\ Len(FileCompletes(o)) = 3
           /\ FileCompletes(o)[1].success
           /\ ~FileCompletes(o)[2].success /\ FileCompletes(o)[2].message = "boom"
           /\ ~FileCompletes(o)[3].success /\ FileCompletes(o)[3].message = ""

\* C14: create_batch_processor returns the Individual strategy for an
\* INDIVIDUAL processor and the Adjoint strategy for an ADJOINT one, bound to
\* the given processor and to the given output path.
Supported(processor) ==
    \/ "IndividualProcessor" \in Ancestors(processor)
    \/ "AdjointProcessor" \in Ancestors(processor)
SameLocation(given, bound) ==
    \/ given \in {"results", "./results"} /\ bound = "/cwd/results"
    \/ given = "/data/out" /\ bound = "/data/out"
C14_FactoryMapsVariant ==
    /\ (facPc # "idle" /\ Supported(facProcessor)) => facPc = "returned"
    /\ facPc = "returned" =>
           /\ Supported(facProcessor)
           /\ "IndividualProcessor" \in Ancestors(facProcessor)
                  => facResult.strategy = "Individual"
           /\ "AdjointProcessor" \in Ancestors(facProcessor)
                  => facResult.strategy = "Adjoint"
           /\ facResult.processor = facProcessor
           /\ SameLocation(facPath, facResult.output_path)
           /\ created # <<>> /\ created[Len(created)] = facResult

C14_Witness ==
    /\ facPc = "returned"
    /\ Len(created) = 2
    /\ created[1].strategy = "Adjoint" /\ created[1].processor = "TextAnalyzer"
    /\ created[2].strategy = "Individual" /\ created[2].processor = "SampleProcessor"
    /\ facPath = "./results"

\* C15: for a processor whose category has no entry in the strategy map the
\* call raises, returns no executor, constructs none, and leaves the
\* filesystem, the processor and the strategy map as they were.
C15_UnsupportedCategoryRaises ==
    /\ []((facPc # "idle" /\ ~Supported(facProcessor))
             => (facPc = "raised" /\ facResult = NoExecutor))
    /\ [][facPc' = "raised"
             => /\ created' = created
                /\ outShape' = outShape
                /\ procOutputPath' = procOutputPath
                /\ processor_map' = processor_map]_vars

C15_Witness ==
    /\ facPc = "raised"
    /\ facProcessor = "BareProcessor"
    /\ Len(created) = 1

\* ------------------------------------------------------ plugin vocabulary
\* The classes a returned list or a registry holds.
ClassesIn(list) == {list[i].cls : i \in 1..Len(list)}

\* A type that satisfies the Processor Contract in one of its two variants
\* and is not a contract base type.
ContractBases == {"IProcessor", "IndividualProcessor", "AdjointProcessor"}
SatisfiesContract(c) ==
    /\ c \in ClassIds
    /\ c \notin ContractBases
    /\ Ancestors(c) \cap {"IndividualProcessor", "AdjointProcessor"} # {}

\* The candidate files of the present directory, and those of them that load.
PrivateFiles == {"_private.py"}
PythonFiles == PluginFiles \ {"notes.txt"}
CandidateFiles == (pluginDir \cap PythonFiles) \ PrivateFiles
LoadableCandidates == {file \in CandidateFiles : LoadKind(file) # "fails"}
FailingCandidates == {file \in CandidateFiles : LoadKind(file) = "fails"}

\* The contract types found in the loadable candidate modules.
ContractTypesFound ==
    {c \in ClassIds : /\ SatisfiesContract(c)
                      /\ \E file \in LoadableCandidates : c \in SeqToSet(MembersOf(file))}

\* C16: when one candidate module fails to load by both import paths,
\* discover_plugins does not raise and still returns every processor class of
\* the other, loadable candidate modules.
C16_DiscoveryIsolatesFailures ==
    (pmCall.op = "discover_plugins" /\ FailingCandidates # {})
        => /\ ~pmCall.raised
           /\ ContractTypesFound \subseteq ClassesIn(pmCall.ret)

\* C17: discover_plugins returns exactly the types of the loadable candidate
\* modules that satisfy the Processor Contract in either variant, and never a
\* contract base type.
C17_ReturnsExactlyContractTypes ==
    pmCall.op = "discover_plugins"
        => /\ ClassesIn(pmCall.ret) = ContractTypesFound
           /\ ClassesIn(pmCall.ret) \cap ContractBases = {}

\* C18: the processors _refresh_plugins obtains are those of a scan of the
\* plugin directory as it is at the time of the refresh.
C18_RefreshRescans ==
    pmCall.op = "_refresh_plugins"
        => \E listing \in Listings :
              ClassesIn(pmCall.ret) = ClassesIn(Discovered(listing).classes)

\* C19: after a discover_plugins call processor_classes holds exactly the
\* classes that scan found.
C19_RegistryIsLatestScan ==
    pmCall.op = "discover_plugins"
        => ClassesIn(processor_classes) = ClassesIn(pmCall.ret)

C21_InstancesCreatedOnce ==
    [][(processors # <<>> /\ processor_classes' = processor_classes)
          => processors' = processors]_vars

\* C26: check_dependencies does not raise; missing lists the declared
\* dependencies whose import does not succeed in the environment, in
\* declaration order, and ok holds exactly when missing is empty.
Unavailable(deps, env) == SelectSeq(deps, LAMBDA d : env[d] # "ok")
C26_ReportsMissingWithoutRaising ==
    depCall.called
        => /\ ~depCall.raised
           /\ depCall.missing = Unavailable(depCall.deps, depCall.env)
           /\ depCall.ok <=> (depCall.missing = <<>>)

\* ------------------------------------------------------ output vocabulary
AllSucceeded == \A i \in Positions : task[i] = "returned"
DistinctInputs == \A i, j \in Positions : files[i] = files[j] => i = j

\* C22: after an Individual run over N distinct input paths whose process
\* calls all succeeded, the output directory holds exactly N artifacts of the
\* run.
C22_OneArtifactPerInput ==
    (strategy = "Individual" /\ bgPc = "done" /\ AllSucceeded /\ DistinctInputs)
        => Cardinality(written) = N

\* C23: in an Adjoint run over N >= 1 files that all succeed, nothing is
\* written at the output path before all N on_file_complete events are
\* delivered, and when on_complete is emitted exactly one artifact, the one at
\* the output path, has been written.
C23_OneArtifactAfterAllEvents ==
    strategy = "Adjoint"
        => /\ written # {} => collected = N
           /\ (bgPc = "done" /\ N >= 1 /\ AllSucceeded)
                 => written = {OutputPathStr}

\* C24: a run whose save_format is not a declared format still produces its
\* artifacts when every step succeeds: one per input for Individual, the one
\* at the output path for Adjoint.
C24_UnknownFormatStillWrites ==
    (bgPc = "done" /\ save_format \notin DeclaredFormats /\ N >= 1 /\ AllSucceeded)
        => IF strategy = "Adjoint"
              THEN written = {OutputPathStr}
              ELSE written = {ArtifactOf(files[i]) : i \in Positions}

\* The main window registers itself as an observer of the run it starts; its
\* handlers run inside the call that notifies it.
MainWindow == "o1"
WindowHandlerRuns == log'[MainWindow] # log[MainWindow]
\* The UI thread is the caller of process_files; it is inside a notification
\* only while it executes _notify_start.
OnUiThread == callerPc = "notify"

\* C25: every handler of the main window that touches widgets or progress
\* counters runs on the UI thread.
C25_HandlersOnUiThread ==
    [][WindowHandlerRuns => OnUiThread]_vars

\* The output location is there: the output directory for Individual, the
\* parent directory of the output file for Adjoint.
LocationExists ==
    IF strategy = "Individual" THEN outShape = "dir" ELSE outShape \in {"absent", "file"}
ProcessCallStarted == \E i \in Positions : task[i] \in {"running", "returned", "raised"}

\* C27: once process_files has passed its checks, and so whenever it returns
\* normally and whenever a process call runs, the output location exists.
C27_OutputLocationExists ==
    (callerPc \in {"notify", "launch", "launched", "returned"} \/ ProcessCallStarted)
        => LocationExists

C27_Witness ==
    /\ strategy = "Adjoint"
    /\ shapeBefore = "orphan"
    /\ callerPc = "returned"
    /\ \E i \in Positions : task[i] = "running"

\* The intermediate results of the successful files among the first n, in
\* the order of the input list.
RECURSIVE SuccessesUpTo(_)
SuccessesUpTo(n) ==
    IF n = 0 THEN <<>>
    ELSE IF task[n] = "returned"
            THEN Append(SuccessesUpTo(n - 1), IntermediateOf(files[n]))
            ELSE SuccessesUpTo(n - 1)

C30_GatherSeesOwnPath ==
    bgPc = "gather" => procOutputPath = OutputPathStr

C30_Witness ==
    /\ runNo = 2
    /\ bgPc = "gather"
    /\ Len(gatherCalls) = 1
    /\ procOutputPath = "output_path_2"

\* The import_module calls of the last call that name the file, by a path.
ImportsBy(file, via) ==
    {k \in 1..Len(pmCall.imports) :
        pmCall.imports[k].file = file /\ pmCall.imports[k].via = via}

\* C28: no call loads a file whose name starts with an underscore, nor a file
\* that is not a *.py file of the directory; a scan takes every other *.py
\* file as one candidate: one import by its stem, and one by the fallback
\* path only when that failed.
C28_UnderscoreFilesNeverLoaded ==
    /\ \A k \in 1..Len(pmCall.imports) : pmCall.imports[k].file \in CandidateFiles
    /\ pmCall.op = "discover_plugins"
          => \A file \in CandidateFiles :
                /\ Cardinality(ImportsBy(file, "direct")) = 1
                /\ Cardinality(ImportsBy(file, "fallback")) =
                      IF LoadKind(file) = "direct" THEN 0 ELSE 1

C28_Witness ==
    /\ pmCall.op = "discover_plugins"
    /\ {"_private.py", "notes.txt", "legacy_a.py", "legacy_b.py"} \subseteq pluginDir
    /\ Cardinality(ImportsBy("legacy_a.py", "direct")) = 1
    /\ Cardinality(ImportsBy("legacy_b.py", "fallback")) = 1

\* How often a class occurs in a returned list or among a registry's values.
Occurrences(list, c) == Cardinality({k \in 1..Len(list) : list[k].cls = c})

\* C38: as multisets, the classes discover_plugins returns are the values of
\* the registry it fills: each class once in both or in neither.
C38_ReturnedAgreesWithRegistry ==
    pmCall.op = "discover_plugins"
        => \A c \in ClassIds :
              /\ Occurrences(pmCall.ret, c) = Occurrences(processor_classes, c)
              /\ Occurrences(pmCall.ret, c) <= 1

\* C35: an observer that has received an on_file_complete or an on_complete
\* received the on_start of the run before.
C35_StartComesFirst ==
    \A o \in ObserverIds : log[o] # <<>> => log[o][1].kind = "start"

NoDuplicates == \A i, j \in 1..Len(observers) : observers[i] = observers[j] => i = j

C31_CompleteFollowsReturn == (callerPc = "returned") ~> (bgPc = "done")

\* MainWindow._process_files disables the controls before it builds the
\* executor; _set_controls_state(tk.NORMAL) is called in its except branch
\* and in on_complete, nowhere else.
ControlsEnabled ==
    \/ callerPc = "idle"
    \/ callerPc = "raised"
    \/ CountOf(MainWindow, "complete") > 0

\* C37: a run the main window started eventually has its controls enabled
\* again, whatever the outcome of the run.
C37_ControlsReenabled ==
    (callerPc # "idle" /\ MainWindow \in Registered) ~> ControlsEnabled

\* The step appends to the log of o exactly one on_file_complete, for the
\* file at position i, whose success flag is the outcome of its process call.
ReportedOnce(o, i) ==
    /\ Len(log'[o]) = Len(log[o]) + 1
    /\ LET e == log'[o][Len(log'[o])]
       IN  /\ e.kind = "file_complete"
           /\ e.file = files[i]
           /\ e.success = (task[i] = "returned")

\* C32: when on_file_complete of one observer raises for a file, every other
\* registered observer still receives exactly one on_file_complete for that
\* file, with a success flag equal to the outcome of the file's process call.
C32_OthersUnaffected ==
    [][\A bad \in ObserverIds, again \in BOOLEAN :
          CollectOneObserverRaises(bad, again)
              => \A o \in Registered \ {bad} : ReportedOnce(o, collected + 1)]_vars

\* C33: when two Adjoint runs sharing one processor instance overlap, the
\* gather_results of each run reads its own run's output path from
\* processor.output_path.
C33_GatherSeesOwnPath ==
    \A r \in Runs : runPc[r] \in {"complete", "done"} => gatherSawPath[r] = RunPath(r)

====
